---- MODULE Spec2Model ----
(***************************************************************************)
(* CarbonTrack: the two applications of PythonProject/backend.             *)
(*   api/main.py    - SQLAlchemy-backed service (the one run.py launches)  *)
(*   simple_api.py  - raw-sqlite3 service                                  *)
(* Each is a set of request handlers over one SQLite table, "emissions".   *)
(* Handlers run in worker threads, one connection per request.             *)
(*                                                                         *)
(* Representation.                                                         *)
(*   strings      sequences of one-character strings, so that str.lower()  *)
(*                is computed character by character                       *)
(*   kg values    integers in thousandths of a kilogram (amount * factor   *)
(*                is then exact); values rounded to 2 decimals are in      *)
(*                hundredths, percentages rounded to 1 decimal in tenths   *)
(*   amounts      integers (the request field is a float)                  *)
(*   timestamps   instants of the wall clock, DayTicks to the day          *)
(***************************************************************************)
EXTENDS Integers, Sequences, FiniteSets, TLC

(***************************************************************************)
(* Bounds of the model.                                                    *)
(***************************************************************************)
MaxRecords == 3
MaxClock == 2
DayTicks == 1
ConcMaxRecords == 3
ConcMaxClock == 2
DeepMaxRecords == 21
DeepMaxClock == 1

AllClients == {"c1", "c2"}

(***************************************************************************)
(* Category names (keys of CARBON_FACTORS, of the unit tables and of       *)
(* get_recommendations).                                                   *)
(***************************************************************************)
transport == <<"t","r","a","n","s","p","o","r","t">>
electricity == <<"e","l","e","c","t","r","i","c","i","t","y">>
food == <<"f","o","o","d">>
waste == <<"w","a","s","t","e">>

(* kg CO2 per unit, in thousandths. *)
CARBON_FACTORS_main ==
  transport :> (
       <<"c","a","r","_","p","e","t","r","o","l">> :> 192 @@
       <<"c","a","r","_","d","i","e","s","e","l">> :> 171 @@
       <<"b","u","s">> :> 105 @@
       <<"t","r","a","i","n">> :> 41 @@
       <<"p","l","a","n","e","_","s","h","o","r","t">> :> 150 @@
       <<"p","l","a","n","e","_","l","o","n","g">> :> 90 @@
       <<"m","o","t","o","r","c","y","c","l","e">> :> 103 @@
       <<"e","l","e","c","t","r","i","c","_","c","a","r">> :> 50 ) @@
  electricity :> (
       <<"g","r","i","d">> :> 500 @@
       <<"s","o","l","a","r">> :> 50 @@
       <<"w","i","n","d">> :> 11 @@
       <<"c","o","a","l">> :> 820 ) @@
  food :> (
       <<"b","e","e","f">> :> 27000 @@
       <<"c","h","i","c","k","e","n">> :> 6900 @@
       <<"p","o","r","k">> :> 12100 @@
       <<"f","i","s","h">> :> 6100 @@
       <<"r","i","c","e">> :> 4000 @@
       <<"v","e","g","e","t","a","b","l","e","s">> :> 2000 @@
       <<"m","i","l","k">> :> 1900 @@
       <<"c","h","e","e","s","e">> :> 13500 ) @@
  waste :> (
       <<"l","a","n","d","f","i","l","l">> :> 500 @@
       <<"r","e","c","y","c","l","e","d">> :> 100 @@
       <<"c","o","m","p","o","s","t","e","d">> :> 300 @@
       <<"p","l","a","s","t","i","c">> :> 2500 )

CARBON_FACTORS_simple ==
  transport :> (
       <<"c","a","r","_","p","e","t","r","o","l">> :> 192 @@
       <<"c","a","r","_","d","i","e","s","e","l">> :> 171 @@
       <<"b","u","s">> :> 105 @@
       <<"t","r","a","i","n">> :> 41 @@
       <<"p","l","a","n","e">> :> 150 @@
       <<"e","l","e","c","t","r","i","c","_","c","a","r">> :> 50 ) @@
  electricity :> (
       <<"g","r","i","d">> :> 500 @@
       <<"s","o","l","a","r">> :> 50 @@
       <<"w","i","n","d">> :> 11 ) @@
  food :> (
       <<"b","e","e","f">> :> 6000 @@
       <<"c","h","i","c","k","e","n">> :> 6900 @@
       <<"r","i","c","e">> :> 4000 @@
       <<"v","e","g","e","t","a","b","l","e","s">> :> 2000 ) @@
  waste :> (
       <<"l","a","n","d","f","i","l","l">> :> 500 @@
       <<"r","e","c","y","c","l","e","d">> :> 100 @@
       <<"c","o","m","p","o","s","t","e","d">> :> 300 )

CARBON_FACTORS(a) == IF a = "main" THEN CARBON_FACTORS_main ELSE CARBON_FACTORS_simple

(* get_default_unit (main.py) and get_unit (simple_api.py): the same table. *)
get_unit(category) ==
  IF category = transport THEN "km"
  ELSE IF category = electricity THEN "kWh"
  ELSE IF category = food THEN "kg"
  ELSE IF category = waste THEN "kg"
  ELSE "unit"

(***************************************************************************)
(* str.lower() on ASCII text.                                              *)
(***************************************************************************)
UpperChars ==
  <<"A","B","C","D","E","F","G","H","I","J","K","L","M",
    "N","O","P","Q","R","S","T","U","V","W","X","Y","Z">>
LowerChars ==
  <<"a","b","c","d","e","f","g","h","i","j","k","l","m",
    "n","o","p","q","r","s","t","u","v","w","x","y","z">>

LowerChar(ch) ==
  IF \E i \in 1..Len(UpperChars) : UpperChars[i] = ch
  THEN LowerChars[CHOOSE i \in 1..Len(UpperChars) : UpperChars[i] = ch]
  ELSE ch

Lower(s) == [i \in 1..Len(s) |-> LowerChar(s[i])]

(***************************************************************************)
(* round(x, ndigits): Python rounds the binary64 value half to even.  On   *)
(* the exact value n/d this is RoundHalfEven; the two agree for every      *)
(* amount * factor with |amount| <= 4 over both factor tables.             *)
(***************************************************************************)
RoundHalfEven(n, d) ==
  LET nn == IF d < 0 THEN -n ELSE n
      dd == IF d < 0 THEN -d ELSE d
      q  == nn \div dd
      r  == nn - q * dd
  IN  IF 2 * r > dd THEN q + 1
      ELSE IF 2 * r < dd THEN q
      ELSE IF q % 2 = 0 THEN q ELSE q + 1

(* round(x, 2) of a kg value: the nearest hundredth, still written in       *)
(* thousandths.                                                             *)
Round2(milli) == 10 * RoundHalfEven(milli, 10)

Max(a, b) == IF a >= b THEN a ELSE b
Min(a, b) == IF a <= b THEN a ELSE b

RECURSIVE SumCo2(_)
SumCo2(rows) ==
  IF rows = <<>> THEN 0 ELSE rows[1].co2_kg + SumCo2(Tail(rows))

(***************************************************************************)
(* State.                                                                  *)
(*   app          which application serves ("main" or "simple")            *)
(*   tableExists  whether the database file holds the emissions table      *)
(*   now          the wall clock read by datetime.utcnow()/datetime.now()  *)
(*   emissions    the committed rows of the table, in rowid order          *)
(*   pc, req, rec, resp   per worker thread: its position, the request it  *)
(*                serves, the row it is writing, the reply it produced     *)
(***************************************************************************)
VARIABLES app, tableExists, now, emissions, pc, req, rec, resp

vars == <<app, tableExists, now, emissions, pc, req, rec, resp>>

NoReq == [op |-> "none"]
NoRow == [id |-> -1]
NoResp == [kind |-> "none"]

CalcReq(category, activity, amount, unit) ==
  [op |-> "calculate", category |-> category, activity |-> activity,
   amount |-> amount, unit |-> unit]

(***************************************************************************)
(* Request bodies the clients send: mixed letter case, a zero and a        *)
(* negative amount, an activity of another category, an unknown category.  *)
(***************************************************************************)
Requests ==
  { CalcReq(<<"T","r","a","n","s","p","o","r","t">>,
            <<"C","A","R","_","P","E","T","R","O","L">>, 2, "km"),
    CalcReq(electricity, <<"g","r","i","d">>, 1, "kWh"),
    CalcReq(<<"W","A","S","T","E">>, <<"L","a","n","d","f","i","l","l">>, 1, "kg"),
    CalcReq(food, <<"B","e","e","f">>, -1, "kg"),
    CalcReq(transport, <<"b","u","s">>, 0, "miles"),
    CalcReq(<<"F","o","o","d">>, <<"b","u","s">>, 1, "kg"),
    CalcReq(<<"f","u","e","l">>, <<"g","r","i","d">>, 1, "l") }

ConcRequests ==
  { CalcReq(<<"T","r","a","n","s","p","o","r","t">>, <<"B","u","s">>, 1, "km"),
    CalcReq(<<"f","u","e","l">>, <<"g","r","i","d">>, 1, "l") }

DeepRequests ==
  { CalcReq(transport, <<"b","u","s">>, 1, "km"),
    CalcReq(transport, <<"w","a","l","k">>, 1, "km") }

(* GET /history?limit=: the default, and other integers a caller may pass. *)
DefaultLimit == 20
Limits == {1, DefaultLimit}
(* LIMIT 20 of get_all_records. *)
SimpleLimit == 20

Init ==
  /\ app \in {"main", "simple"}
  /\ tableExists \in BOOLEAN
  /\ (app = "main" => tableExists)
  /\ now = 0
  /\ emissions = <<>>
  /\ pc = [c \in AllClients |-> "idle"]
  /\ req = [c \in AllClients |-> NoReq]
  /\ rec = [c \in AllClients |-> NoRow]
  /\ resp = [c \in AllClients |-> NoResp]

(* The wall clock advances. *)
Tick(maxClock) ==
  /\ now < maxClock
  /\ now' = now + 1
  /\ UNCHANGED <<app, tableExists, emissions, pc, req, rec, resp>>

(***************************************************************************)
(* POST /calculate, up to the INSERT.                                      *)
(***************************************************************************)
(* Validate with the two error kinds exchanged. *)
Validate_kindsSwapped(a, r) ==
  IF Lower(r.category) \notin DOMAIN CARBON_FACTORS(a) THEN "UnknownActivity"
  ELSE IF Lower(r.activity) \notin DOMAIN CARBON_FACTORS(a)[Lower(r.category)]
  THEN "UnknownCategory"
  ELSE "ok"

(* The two membership tests of the handler, category first. *)
Validate(a, r) ==
  IF Lower(r.category) \notin DOMAIN CARBON_FACTORS(a) THEN "UnknownCategory"
  ELSE IF Lower(r.activity) \notin DOMAIN CARBON_FACTORS(a)[Lower(r.category)]
  THEN "UnknownActivity"
  ELSE "ok"

(* NewRecord persisting the rounded mass instead of the computed one. *)
NewRecord_roundedMass(a, r, ts) ==
  LET category == Lower(r.category)
      activity == Lower(r.activity)
      factor == CARBON_FACTORS(a)[category][activity]
  IN  [id |-> 0,
       category |-> category,
       activity |-> activity,
       amount |-> r.amount,
       unit |-> IF a = "main" THEN r.unit ELSE get_unit(category),
       co2_kg |-> Round2(r.amount * factor),
       timestamp |-> ts]

(* NewRecord persisting the strings as the caller wrote them. *)
NewRecord_rawStrings(a, r, ts) ==
  LET category == Lower(r.category)
      activity == Lower(r.activity)
      factor == CARBON_FACTORS(a)[category][activity]
  IN  [id |-> 0,
       category |-> r.category,
       activity |-> r.activity,
       amount |-> r.amount,
       unit |-> IF a = "main" THEN r.unit ELSE get_unit(category),
       co2_kg |-> r.amount * factor,
       timestamp |-> ts]

(* EmissionRecord(...) of main.py / the parameter tuple of save_to_db,     *)
(* for a request that passed Validate; the id is the table's to give.      *)
NewRecord(a, r, ts) ==
  LET category == Lower(r.category)
      activity == Lower(r.activity)
      factor == CARBON_FACTORS(a)[category][activity]
  IN  [id |-> 0,
       category |-> category,
       activity |-> activity,
       amount |-> r.amount,
       unit |-> IF a = "main" THEN r.unit ELSE get_unit(category),
       co2_kg |-> r.amount * factor,
       timestamp |-> ts]

InFlight == Cardinality({c \in AllClients : pc[c] \in {"flush", "inserted"}})

(* Validation, the computation, and the evaluation of the timestamp        *)
(* (Column default datetime.utcnow at flush; datetime.now() in the         *)
(* parameter tuple): the clock is read before the INSERT executes.         *)
Calculate(c, r, cap) ==
  /\ pc[c] = "idle"
  /\ req' = [req EXCEPT ![c] = r]
  /\ IF Validate(app, r) # "ok"
     THEN /\ resp' = [resp EXCEPT ![c] = [kind |-> Validate(app, r), status |-> 400]]
          /\ pc' = [pc EXCEPT ![c] = "done"]
          /\ UNCHANGED rec
     ELSE /\ Len(emissions) + InFlight < cap
          /\ rec' = [rec EXCEPT ![c] = NewRecord(app, r, now)]
          /\ pc' = [pc EXCEPT ![c] = "flush"]
          /\ UNCHANGED resp
  /\ UNCHANGED <<app, tableExists, now, emissions>>

(* INTEGER PRIMARY KEY: the rowid SQLite gives a new row. *)
NextRowId(rows) ==
  IF rows = <<>> THEN 1
  ELSE 1 + (CHOOSE m \in {rows[i].id : i \in 1..Len(rows)} :
              \A i \in 1..Len(rows) : rows[i].id <= m)

(* No write lock: two connections insert at once. *)
WriteLockFree_unlocked(c) == TRUE

(* The INSERT takes the database write lock, held until COMMIT. *)
WriteLockFree(c) == \A d \in AllClients \ {c} : pc[d] # "inserted"

(* The INSERT statement.  Without the table it raises                      *)
(* sqlite3.OperationalError and the request fails.                         *)
Insert(c) ==
  /\ pc[c] = "flush"
  /\ IF ~tableExists
     THEN /\ resp' = [resp EXCEPT ![c] = [kind |-> "StorageError", status |-> 500]]
          /\ pc' = [pc EXCEPT ![c] = "done"]
          /\ rec' = [rec EXCEPT ![c] = NoRow]
     ELSE /\ WriteLockFree(c)
          /\ rec' = [rec EXCEPT ![c].id = NextRowId(emissions)]
          /\ pc' = [pc EXCEPT ![c] = "inserted"]
          /\ UNCHANGED resp
  /\ UNCHANGED <<app, tableExists, now, emissions, req>>

(* COMMIT: the row becomes visible to every connection at once. *)
Commit(c) ==
  /\ pc[c] = "inserted"
  /\ emissions' = Append(emissions, rec[c])
  /\ pc' = [pc EXCEPT ![c] = "committed"]
  /\ UNCHANGED <<app, tableExists, now, req, rec, resp>>

RowById(rows, id) == rows[CHOOSE i \in 1..Len(rows) : rows[i].id = id]

(***************************************************************************)
(* The reply of POST /calculate.  main.py refreshes the record from the    *)
(* table and reports its id and timestamp; simple_api.py reports lastrowid *)
(* and reads the clock again.  Both report round(co2_kg, 2).               *)
(***************************************************************************)
CalcReply(a, r, row, stored, clock) ==
  [kind |-> "ok",
   id |-> IF a = "main" THEN stored.id ELSE row.id,
   category |-> row.category,
   activity |-> row.activity,
   amount |-> r.amount,
   unit |-> IF a = "main" THEN r.unit ELSE get_unit(row.category),
   co2_kg |-> Round2(row.co2_kg),
   factor_used |-> CARBON_FACTORS(a)[row.category][row.activity],
   timestamp |-> IF a = "main" THEN stored.timestamp ELSE clock]

Respond(c) ==
  /\ pc[c] = "committed"
  /\ resp' = [resp EXCEPT ![c] =
               CalcReply(app, req[c], rec[c], RowById(emissions, rec[c].id), now)]
  /\ pc' = [pc EXCEPT ![c] = "done"]
  /\ UNCHANGED <<app, tableExists, now, emissions, req, rec>>

(* The client takes the reply; the worker is free again. *)
Return(c) ==
  /\ pc[c] = "done"
  /\ pc' = [pc EXCEPT ![c] = "idle"]
  /\ req' = [req EXCEPT ![c] = NoReq]
  /\ rec' = [rec EXCEPT ![c] = NoRow]
  /\ resp' = [resp EXCEPT ![c] = NoResp]
  /\ UNCHANGED <<app, tableExists, now, emissions>>

(***************************************************************************)
(* ORDER BY timestamp DESC.  SQL leaves the order of rows with equal       *)
(* timestamps open; the model admits both resolutions by rowid.            *)
(***************************************************************************)
TieOrders == {"rowid_asc", "rowid_desc"}

Before(a, b, tie) ==
  \/ a.timestamp > b.timestamp
  \/ /\ a.timestamp = b.timestamp
     /\ IF tie = "rowid_asc" THEN a.id < b.id ELSE a.id > b.id

RemoveAt(s, i) == SubSeq(s, 1, i - 1) \o SubSeq(s, i + 1, Len(s))

RECURSIVE OrderByTimestampDesc(_, _)
OrderByTimestampDesc(rows, tie) ==
  IF rows = <<>> THEN <<>>
  ELSE LET i == CHOOSE i \in 1..Len(rows) :
                  \A j \in 1..Len(rows) : ~Before(rows[j], rows[i], tie)
       IN  <<rows[i]>> \o OrderByTimestampDesc(RemoveAt(rows, i), tie)

(* LIMIT n: a negative n is no limit in SQLite. *)
LimitRows(rows, n) ==
  IF n < 0 THEN rows ELSE SubSeq(rows, 1, Min(n, Len(rows)))

(* get_all_records of simple_api.py. *)
get_all_records(rows, tie) == LimitRows(OrderByTimestampDesc(rows, tie), SimpleLimit)

(***************************************************************************)
(* GET /history.                                                           *)
(***************************************************************************)
HistoryReply(a, rows, limit, tie) ==
  LET records == IF a = "main"
                 THEN LimitRows(OrderByTimestampDesc(rows, tie), limit)
                 ELSE get_all_records(rows, tie)
  IN  [kind |-> "History",
       total_records |-> Len(records),
       total_co2_kg |-> Round2(SumCo2(records)),
       records |-> [i \in 1..Len(records) |->
                     [id |-> records[i].id,
                      category |-> records[i].category,
                      activity |-> records[i].activity,
                      amount |-> records[i].amount,
                      unit |-> records[i].unit,
                      co2_kg |-> IF a = "main" THEN Round2(records[i].co2_kg)
                                 ELSE records[i].co2_kg,
                      timestamp |-> records[i].timestamp]]]

History(c, limit, tie) ==
  /\ pc[c] = "idle"
  /\ app = "simple" => limit = SimpleLimit
  /\ req' = [req EXCEPT ![c] = [op |-> "history", limit |-> limit]]
  /\ resp' = [resp EXCEPT ![c] =
               IF tableExists THEN HistoryReply(app, emissions, limit, tie)
               ELSE [kind |-> "StorageError", status |-> 500]]
  /\ pc' = [pc EXCEPT ![c] = "done"]
  /\ UNCHANGED <<app, tableExists, now, emissions, rec>>

(***************************************************************************)
(* GET /stats.                                                             *)
(***************************************************************************)
Range(s) == {s[i] : i \in 1..Len(s)}

(* The keys of the breakdown dict, in insertion (first seen) order. *)
RECURSIVE FirstSeen(_, _)
FirstSeen(rows, seen) ==
  IF rows = <<>> THEN <<>>
  ELSE IF rows[1].category \in seen THEN FirstSeen(Tail(rows), seen)
  ELSE <<rows[1].category>> \o FirstSeen(Tail(rows), seen \cup {rows[1].category})

RowsOf(rows, category) == SelectSeq(rows, LAMBDA r : r.category = category)
RowsOfActivity(rows, activity) == SelectSeq(rows, LAMBDA r : r.activity = activity)

(* round((part / total) * 100, 1), in tenths of a percent. *)
Percentage(part, total) == RoundHalfEven(part * 1000, total)

MsgTransport == "Your transport emissions are high. Consider carpooling or public transport."
MsgFood == "Consider reducing meat consumption, especially beef."
MsgElectricity == "Switch to energy-efficient appliances and LED bulbs."
MsgBalanced == "Your emissions are well balanced across categories!"

RECURSIVE RecsLoop(_, _)
RecsLoop(order, breakdown) ==
  IF order = <<>> THEN <<>>
  ELSE LET category == Head(order)
           here == IF breakdown[category].percentage > 400
                   THEN IF category = transport THEN <<MsgTransport>>
                        ELSE IF category = food THEN <<MsgFood>>
                        ELSE IF category = electricity THEN <<MsgElectricity>>
                        ELSE <<>>
                   ELSE <<>>
       IN  here \o RecsLoop(Tail(order), breakdown)

(* get_recommendations appending the balanced message unconditionally. *)
get_recommendations_alwaysBalanced(order, breakdown) ==
  RecsLoop(order, breakdown) \o <<MsgBalanced>>

get_recommendations(order, breakdown) ==
  LET recs == RecsLoop(order, breakdown)
  IN  IF recs = <<>> THEN <<MsgBalanced>> ELSE recs

Timestamps(rows) == {rows[i].timestamp : i \in 1..Len(rows)}
Oldest(rows) == CHOOSE t \in Timestamps(rows) : \A u \in Timestamps(rows) : t <= u
Newest(rows) == CHOOSE t \in Timestamps(rows) : \A u \in Timestamps(rows) : t >= u

(* (newest - oldest).days or 1 *)
DaysDiff(rows) ==
  LET days == (Newest(rows) - Oldest(rows)) \div DayTicks
  IN  IF days = 0 THEN 1 ELSE days

(* get_statistics of main.py over the rows of query(EmissionRecord).all().  *)
(* A total of 0.0 makes the first percentage raise ZeroDivisionError.       *)
get_statistics(rows) ==
  IF rows = <<>> THEN [kind |-> "EmptyNotice"]
  ELSE LET total_co2 == SumCo2(rows)
           order == FirstSeen(rows, {})
           days_diff == DaysDiff(rows)
       IN  IF total_co2 = 0 THEN [kind |-> "ZeroDivisionError", status |-> 500]
           ELSE LET breakdown ==
                      [cat \in Range(order) |->
                        [total |-> Round2(SumCo2(RowsOf(rows, cat))),
                         count |-> Len(RowsOf(rows, cat)),
                         activities |->
                           [act \in {r.activity : r \in Range(RowsOf(rows, cat))} |->
                             SumCo2(RowsOfActivity(RowsOf(rows, cat), act))],
                         percentage |-> Percentage(SumCo2(RowsOf(rows, cat)), total_co2)]]
                IN  [kind |-> "Stats",
                     total_emissions_kg |-> Round2(total_co2),
                     total_records |-> Len(rows),
                     daily_average_kg |-> 10 * RoundHalfEven(total_co2, 10 * days_diff),
                     recording_period_days |-> days_diff,
                     order |-> order,
                     breakdown |-> breakdown,
                     recommendations |-> get_recommendations(order, breakdown)]

(* stats of simple_api.py over the rows of get_all_records(). *)
stats(rows) ==
  IF rows = <<>> THEN [kind |-> "EmptyNotice"]
  ELSE LET total_co2 == SumCo2(rows)
           cats == Range(FirstSeen(rows, {}))
       IN  IF total_co2 = 0 THEN [kind |-> "ZeroDivisionError", status |-> 500]
           ELSE [kind |-> "Stats",
                 total_emissions_kg |-> Round2(total_co2),
                 total_records |-> Len(rows),
                 breakdown |-> [cat \in cats |-> SumCo2(RowsOf(rows, cat))],
                 percentages |->
                   [cat \in cats |-> Percentage(SumCo2(RowsOf(rows, cat)), total_co2)]]

StatsReply(a, rows, tie) ==
  IF a = "main" THEN get_statistics(rows) ELSE stats(get_all_records(rows, tie))

Stats(c, tie) ==
  /\ pc[c] = "idle"
  /\ req' = [req EXCEPT ![c] = [op |-> "stats"]]
  /\ resp' = [resp EXCEPT ![c] =
               IF tableExists THEN StatsReply(app, emissions, tie)
               ELSE [kind |-> "StorageError", status |-> 500]]
  /\ pc' = [pc EXCEPT ![c] = "done"]
  /\ UNCHANGED <<app, tableExists, now, emissions, rec>>

(***************************************************************************)
(* Specifications.                                                         *)
(*   Spec      one client, the full set of request bodies                  *)
(*   SpecConc  two concurrent clients, two request bodies                  *)
(*   SpecDeep  one client filling the table past the LIMIT of 20           *)
(***************************************************************************)
SeqClients == {"c1"}

Next ==
  \/ Tick(MaxClock)
  \/ \E c \in SeqClients :
       \/ \E r \in Requests : Calculate(c, r, MaxRecords)
       \/ Insert(c)
       \/ Commit(c)
       \/ Respond(c)
       \/ Return(c)
       \/ \E limit \in Limits, tie \in TieOrders : History(c, limit, tie)
       \/ \E tie \in TieOrders : Stats(c, tie)

Spec == Init /\ [][Next]_vars

NextConc ==
  \/ Tick(ConcMaxClock)
  \/ \E c \in AllClients :
       \/ \E r \in ConcRequests : Calculate(c, r, ConcMaxRecords)
       \/ Insert(c)
       \/ Commit(c)
       \/ Respond(c)
       \/ Return(c)
       \/ \E tie \in TieOrders : History(c, DefaultLimit, tie)
       \/ \E tie \in TieOrders : Stats(c, tie)

SpecConc == Init /\ [][NextConc]_vars

NextDeep ==
  \/ Tick(DeepMaxClock)
  \/ \E c \in SeqClients :
       \/ \E r \in DeepRequests : Calculate(c, r, DeepMaxRecords)
       \/ Insert(c)
       \/ Commit(c)
       \/ Respond(c)
       \/ Return(c)
       \/ \E tie \in TieOrders : History(c, DefaultLimit, tie)
       \/ \E tie \in TieOrders : Stats(c, tie)

SpecDeep == Init /\ [][NextDeep]_vars

(***************************************************************************)
(* Properties.                                                             *)
(***************************************************************************)
Abs(x) == IF x < 0 THEN -x ELSE x

Registered(r) ==
  /\ Lower(r.category) \in DOMAIN CARBON_FACTORS(app)
  /\ Lower(r.activity) \in DOMAIN CARBON_FACTORS(app)[Lower(r.category)]

RegisteredFactor(r) == CARBON_FACTORS(app)[Lower(r.category)][Lower(r.activity)]

FinishedCalculate(c) == pc[c] = "done" /\ req[c].op = "calculate"

(* C1, as stated: for every registered pair and every amount calculate      *)
(* succeeds and both returns and persists co2_kg = amount * factor, with    *)
(* factor_used the registered factor.  Stated for a database that holds     *)
(* the emissions table.                                                     *)
C1_ReturnsExactMass ==
  \A c \in AllClients :
    (FinishedCalculate(c) /\ Registered(req[c]) /\ tableExists) =>
      /\ resp[c].kind = "ok"
      /\ resp[c].factor_used = RegisteredFactor(req[c])
      /\ resp[c].co2_kg = req[c].amount * RegisteredFactor(req[c])
      /\ \E i \in 1..Len(emissions) :
           /\ emissions[i].id = resp[c].id
           /\ emissions[i].co2_kg = req[c].amount * RegisteredFactor(req[c])

(* C1, amended: for every registered pair and every amount (positive, zero  *)
(* or negative) calculate persists co2_kg = amount * factor and reports     *)
(* factor_used = factor, and the co2_kg it returns is that mass rounded to  *)
(* the nearest hundredth; where the emissions table is missing              *)
(* (simple_api.py creates none) it fails with a storage error and nothing   *)
(* is persisted.                                                            *)
C1_PersistsExactReturnsRounded ==
  /\ ~tableExists => emissions = <<>>
  /\ \A c \in AllClients :
       (FinishedCalculate(c) /\ Registered(req[c])) =>
         LET exact == req[c].amount * RegisteredFactor(req[c])
         IN  IF tableExists
             THEN /\ resp[c].kind = "ok"
                  /\ resp[c].factor_used * req[c].amount = exact
                  /\ resp[c].factor_used = RegisteredFactor(req[c])
                  /\ resp[c].co2_kg % 10 = 0
                  /\ Abs(resp[c].co2_kg - exact) <= 5
                  /\ \E i \in 1..Len(emissions) :
                       /\ emissions[i].id = resp[c].id
                       /\ emissions[i].amount = req[c].amount
                       /\ emissions[i].co2_kg = exact
             ELSE resp[c].kind = "StorageError"

(* A reply whose co2_kg is not the persisted mass, for a negative amount    *)
(* and for a positive one.                                                  *)
C1_Witness ==
  \E c \in AllClients :
    /\ FinishedCalculate(c)
    /\ resp[c].kind = "ok"
    /\ req[c].amount > 0
    /\ resp[c].co2_kg # req[c].amount * resp[c].factor_used
    /\ \E i \in 1..Len(emissions) : emissions[i].amount < 0

(* C2: a calculate request whose lower-cased category is not in the factor  *)
(* table fails with UnknownCategory, one whose category is known but whose  *)
(* lower-cased activity is not registered under it fails with               *)
(* UnknownActivity, and in both cases the table and the rows being written  *)
(* are what they were before the request.                                   *)
C2_UnknownLeavesStore ==
  [][\A c \in AllClients :
      /\ (pc[c] = "idle" /\ pc'[c] # "idle" /\ req'[c].op = "calculate") =>
           /\ Lower(req'[c].category) \notin DOMAIN CARBON_FACTORS(app) =>
                /\ pc'[c] = "done"
                /\ resp'[c].kind = "UnknownCategory"
                /\ emissions' = emissions /\ rec' = rec
           /\ ( /\ Lower(req'[c].category) \in DOMAIN CARBON_FACTORS(app)
                /\ Lower(req'[c].activity) \notin
                     DOMAIN CARBON_FACTORS(app)[Lower(req'[c].category)] ) =>
                /\ pc'[c] = "done"
                /\ resp'[c].kind = "UnknownActivity"
                /\ emissions' = emissions /\ rec' = rec
      /\ ( /\ pc[c] = "done" /\ pc'[c] = "idle"
           /\ resp[c].kind \in {"UnknownCategory", "UnknownActivity"} ) =>
           /\ emissions' = emissions
           /\ NextRowId(emissions') = NextRowId(emissions)
    ]_vars

(* An UnknownActivity reply over a table that already holds rows. *)
C2_Witness ==
  \E c \in AllClients :
    /\ FinishedCalculate(c)
    /\ resp[c].kind = "UnknownActivity"
    /\ Len(emissions) >= 2

UpperCaseLetters == {UpperChars[k] : k \in 1..Len(UpperChars)}

IsLowerCased(s) == \A i \in 1..Len(s) : s[i] \notin UpperCaseLetters

(* C4: every persisted row's category and activity are lower-cased, the     *)
(* category is a key of the factor table and the activity a key of that     *)
(* category's entry, whatever letter case the request used.                 *)
C4_RowsAreRegisteredLowerCase ==
  \A i \in 1..Len(emissions) :
    /\ IsLowerCased(emissions[i].category)
    /\ IsLowerCased(emissions[i].activity)
    /\ emissions[i].category \in DOMAIN CARBON_FACTORS(app)
    /\ emissions[i].activity \in DOMAIN CARBON_FACTORS(app)[emissions[i].category]

(* A committed row whose request spelled the category in another case. *)
C4_Witness ==
  \E c \in AllClients :
    /\ pc[c] = "committed"
    /\ req[c].category # rec[c].category
    /\ req[c].activity # rec[c].activity
    /\ \E i \in 1..Len(emissions) : emissions[i] = rec[c]

(* C3: under any interleaving of concurrent calculate requests the ids of   *)
(* the table are pairwise distinct and strictly increasing in commit order, *)
(* and every record a history reply shows is a committed row with all its   *)
(* fields; a statistics reply counts committed rows only.                   *)
C3_IdsSerializedReadsCommitted ==
  /\ \A i, j \in 1..Len(emissions) : i < j => emissions[i].id < emissions[j].id
  /\ \A c \in AllClients :
       (pc[c] = "done" /\ resp[c].kind = "History") =>
         \A k \in 1..Len(resp[c].records) :
           \E i \in 1..Len(emissions) :
             /\ emissions[i].id = resp[c].records[k].id
             /\ emissions[i].category = resp[c].records[k].category
             /\ emissions[i].activity = resp[c].records[k].activity
             /\ emissions[i].amount = resp[c].records[k].amount
             /\ emissions[i].unit = resp[c].records[k].unit
             /\ emissions[i].timestamp = resp[c].records[k].timestamp
             /\ Abs(emissions[i].co2_kg - resp[c].records[k].co2_kg) <= 5
  /\ \A c \in AllClients :
       (pc[c] = "done" /\ resp[c].kind = "Stats") =>
         resp[c].total_records <= Len(emissions)

(* A history read of two committed rows while the other connection holds    *)
(* an uncommitted row.                                                      *)
C3_Witness ==
  \E c, d \in AllClients :
    /\ c # d
    /\ pc[c] = "done" /\ resp[c].kind = "History"
    /\ resp[c].total_records = 2
    /\ Len(emissions) = 2
    /\ pc[d] = "inserted"

(* C9: timestamps are non-decreasing in insertion order: for two persisted  *)
(* rows a and b with a.id < b.id, a.timestamp <= b.timestamp, under any     *)
(* interleaving of concurrent calculate requests.                           *)
C9_TimestampsFollowIds ==
  \A i, j \in 1..Len(emissions) :
    emissions[i].id < emissions[j].id =>
      emissions[i].timestamp <= emissions[j].timestamp

(* C5: after a calculate request succeeds with id i, a history request      *)
(* (default limit 20) returns a record with id i whose category, activity,  *)
(* amount, unit, co2_kg and timestamp are those the calculate reply         *)
(* reported, and no other row has id i.                                     *)
C5_HistoryShowsReply ==
  \A c \in AllClients :
    (FinishedCalculate(c) /\ resp[c].kind = "ok") =>
      /\ Cardinality({i \in 1..Len(emissions) : emissions[i].id = resp[c].id}) = 1
      /\ \A tie \in TieOrders :
           \E k \in 1..HistoryReply(app, emissions, DefaultLimit, tie).total_records :
             HistoryReply(app, emissions, DefaultLimit, tie).records[k] =
               [id |-> resp[c].id,
                category |-> resp[c].category,
                activity |-> resp[c].activity,
                amount |-> resp[c].amount,
                unit |-> resp[c].unit,
                co2_kg |-> resp[c].co2_kg,
                timestamp |-> resp[c].timestamp]

FinishedStats(c) == pc[c] = "done" /\ req[c].op = "stats"

(* C6: statistics returns EmptyNotice exactly when the table is empty, and  *)
(* for every non-empty table reachable through calculate it returns a       *)
(* Stats result and never a division error.  Stated for a database that     *)
(* holds the emissions table.                                               *)
C6_StatsNeverDivideByZero ==
  \A c \in SeqClients :
    (FinishedStats(c) /\ tableExists) =>
      /\ resp[c].kind # "ZeroDivisionError"
      /\ resp[c].kind = "EmptyNotice" <=> emissions = <<>>
      /\ emissions # <<>> => resp[c].kind = "Stats"

(* C7: statistics aggregates the full table: total_records is the number of *)
(* persisted rows and the total is the sum of their co2_kg (as rounded for  *)
(* output), with no cap on how many rows are read.                          *)
C7_StatsCoverEveryRow ==
  \A c \in SeqClients :
    (FinishedStats(c) /\ resp[c].kind = "Stats") =>
      /\ resp[c].total_records = Len(emissions)
      /\ Abs(resp[c].total_emissions_kg - SumCo2(emissions)) <= 5

Occurrences(s, m) == Cardinality({i \in 1..Len(s) : s[i] = m})

(* C8: for each category of the breakdown whose percentage exceeds 40, its  *)
(* canned message is emitted once if it is transport, food or electricity   *)
(* and none exists for waste; a canned message is emitted only for a        *)
(* category that exceeds 40; and when no category exceeds 40 the list is    *)
(* the single balanced message.                                             *)
C8_RecommendationPolicy ==
  \A c \in AllClients :
    (FinishedStats(c) /\ app = "main" /\ resp[c].kind = "Stats") =>
      LET b == resp[c].breakdown
          recs == resp[c].recommendations
          High(cat) == cat \in DOMAIN b /\ b[cat].percentage > 400
      IN  /\ Range(recs) \subseteq {MsgTransport, MsgFood, MsgElectricity, MsgBalanced}
          /\ Occurrences(recs, MsgTransport) = IF High(transport) THEN 1 ELSE 0
          /\ Occurrences(recs, MsgFood) = IF High(food) THEN 1 ELSE 0
          /\ Occurrences(recs, MsgElectricity) = IF High(electricity) THEN 1 ELSE 0
          /\ (\A cat \in DOMAIN b : ~High(cat)) => recs = <<MsgBalanced>>
          /\ Occurrences(recs, MsgBalanced) > 0 => recs = <<MsgBalanced>>

(* Waste and transport both above 40%: only the transport message. *)
C8_Witness ==
  \E c \in AllClients :
    /\ FinishedStats(c) /\ app = "main" /\ resp[c].kind = "Stats"
    /\ waste \in DOMAIN resp[c].breakdown
    /\ resp[c].breakdown[waste].percentage > 400
    /\ resp[c].recommendations = <<MsgTransport>>

(* C10: for every non-empty table statistics reports daily_average =        *)
(* total_co2 / max(1, d), d the whole days between the oldest and the       *)
(* newest timestamp (to the rounding of the output), and the divisor,       *)
(* recording_period_days, is max(1, d).                                     *)
C10_DailyAverage ==
  \A c \in SeqClients :
    (FinishedStats(c) /\ app = "main" /\ emissions # <<>>) =>
      LET d == (Newest(emissions) - Oldest(emissions)) \div DayTicks
      IN  /\ resp[c].kind = "Stats"
          /\ resp[c].recording_period_days = Max(1, d)
          /\ Abs(resp[c].daily_average_kg * Max(1, d) - SumCo2(emissions)) <= 5 * Max(1, d)

====
